---- MODULE Spec2Model ----
(***************************************************************************)
(* The code executor router (src/src/routes/codeExecutor/                  *)
(* codeExecutorRouter.ts): an express router with GET, POST, PUT, PATCH    *)
(* and DELETE on /:filename over the directory code_storage.               *)
(*                                                                         *)
(* Strings are sequences of one-character strings.  A directory is a       *)
(* function from the names of the files it holds to their contents.  Every *)
(* handler runs its synchronous fs calls in one step of the event loop;    *)
(* only POST spans two steps (the handler, then the exec callback).        *)
(***************************************************************************)
EXTENDS Naturals, Integers, Sequences, FiniteSets, TLC

VARIABLES
    files,       \* code_storage: filename -> content of the files present
    trashDir,    \* whether code_storage/.trash exists
    trash,       \* code_storage/.trash: filename -> content
    outside,     \* the directory that holds code_storage: filename -> content
    execs,       \* child processes started by exec() whose callback has not run
    exchange,    \* the latest request handled, the fs calls made, the response
    requests,    \* PUT requests that arrived together: code and status answered
    checked,     \* for each process of execs, what the POST handler found at filePath
    clientNames, \* the filenames the clients of this run ask for
    ioFaulty     \* whether the filesystem may raise unexpected errors

vars == <<files, trashDir, trash, outside, execs, exchange, requests, checked,
          clientNames, ioFaulty>>

----------------------------------------------------------------------------
(* Bounds of the model. *)

\* longest file content kept on disk
MaxContentLen == 2
\* longest find/replace command enumerated exhaustively
MaxCmdLen == 6
\* child processes running at once
MaxExecs == 1
\* PUT requests for one filename in flight at once
MaxRacers == 3

----------------------------------------------------------------------------
(* Strings *)

LF == "\n"

\* '.' of a JavaScript regular expression matches any character except a
\* line terminator
IsLineTerminator(c) == c = LF

Substring(s, from, to) == SubSeq(s, from + 1, to)  \* String.prototype.substring

RECURSIVE SeqsUpTo(_, _)
SeqsUpTo(chars, n) ==
    IF n = 0 THEN {<< >>}
    ELSE LET shorter == SeqsUpTo(chars, n - 1)
         IN  shorter \cup {Append(s, c) : s \in shorter, c \in chars}

endsWith(s, suffix) ==
    /\ Len(suffix) <= Len(s)
    /\ SubSeq(s, Len(s) - Len(suffix) + 1, Len(s)) = suffix

\* JavaScript values of a request body field
Str(s) == [type |-> "string", val |-> s]
Undefined == [type |-> "undefined", val |-> << >>]
Number == [type |-> "number", val |-> <<"5">>]
typeof(v) == v.type
\* !v
Falsy(v) == typeof(v) = "undefined" \/ (typeof(v) = "string" /\ v.val = << >>)

----------------------------------------------------------------------------
(* Requests *)

Filenames ==
    { <<"a", ".", "p", "y">>,
      <<"b", ".", "j", "a", "c">>,
      <<"c", ".", "t", "x", "t">>,
      <<"a", ".", "P", "Y">> }

\* The filenames of one run: a name the router serves and one it refuses
NameSets ==
    { { <<"a", ".", "p", "y">>, <<"c", ".", "t", "x", "t">> },
      { <<"b", ".", "j", "a", "c">>, <<"a", ".", "P", "Y">> } }

PyFile == <<"a", ".", "p", "y">>

\* GET /..%2Fa.py
ParentName == <<".", ".", "/">> \o PyFile

\* GET /.trash%2Fa.py
TrashName == <<".", "t", "r", "a", "s", "h", "/">> \o PyFile

\* every value of req.params.filename in the model
RequestNames == Filenames \cup {ParentName, TrashName}

Methods == {"GET", "POST", "PUT", "PATCH", "DELETE"}

\* Helper to allow only .py and .jac files
isAllowedFile(filename) ==
    \/ endsWith(filename, <<".", "p", "y">>)
    \/ endsWith(filename, <<".", "j", "a", "c">>)

----------------------------------------------------------------------------
(* Paths.  express decodes the :filename parameter (%2F is "/"), so a name *)
(* can hold "/" and ".." segments.  A path is the sequence of its segments *)
(* below the directory that holds code_storage.                            *)

\* the segments of a name between its "/"
RECURSIVE Split(_)
Split(s) ==
    IF \A k \in 1..Len(s) : s[k] # "/" THEN <<s>>
    ELSE LET k == CHOOSE i \in 1..Len(s) :
                      s[i] = "/" /\ \A j \in 1..(i - 1) : s[j] # "/"
         IN  <<SubSeq(s, 1, k - 1)>> \o Split(SubSeq(s, k + 1, Len(s)))

\* path.normalize: "" and "." segments dropped, ".." removes the segment
\* before it
RECURSIVE normalize(_, _)
normalize(resolved, segments) ==
    IF segments = << >> THEN resolved
    ELSE IF Head(segments) \in {<< >>, <<".">>}
    THEN normalize(resolved, Tail(segments))
    ELSE IF Head(segments) = <<".", ".">>
    THEN normalize(SubSeq(resolved, 1, Len(resolved) - 1), Tail(segments))
    ELSE normalize(Append(resolved, Head(segments)), Tail(segments))

\* path.join(dir, name)
join(dir, name) == normalize(dir, Split(name))

codeStorageDir == << <<"c", "o", "d", "e", "_", "s", "t", "o", "r", "a", "g", "e">> >>

\* path.join(codeStorageDir, '.trash')
trashDirPath == join(codeStorageDir, <<".", "t", "r", "a", "s", "h">>)

\* the paths of the names of the model, resolved once
filePaths == [filename \in RequestNames |-> join(codeStorageDir, filename)]
trashPaths == [filename \in RequestNames |-> join(trashDirPath, filename)]

\* path.join(codeStorageDir, filename)
filePath(filename) ==
    IF filename \in RequestNames THEN filePaths[filename]
    ELSE join(codeStorageDir, filename)

\* path.join(trashDir, filename)
trashPath(filename) ==
    IF filename \in RequestNames THEN trashPaths[filename]
    ELSE join(trashDirPath, filename)

dirname(p) == SubSeq(p, 1, Len(p) - 1)
basename(p) == IF p = << >> THEN << >> ELSE p[Len(p)]

\* whether the path lies below code_storage
WithinStorageRoot(p) ==
    /\ Len(p) > Len(codeStorageDir)
    /\ SubSeq(p, 1, Len(codeStorageDir)) = codeStorageDir

----------------------------------------------------------------------------
(* The find/replace command: message.match(regexPattern) with              *)
(* regexPattern = /^s(.)(.*?)\1(.*?)\1([g]?)$/                             *)

NoLineTerminator(s, from, to) ==
    \A k \in from..to : ~IsLineTerminator(s[k])

\* a pattern that takes any one character for the flag: /^s(.)(.*?)\1(.*?)\1(.?)$/
regexPatternMatchesAnyFlag(message) ==
    IF Len(message) < 2 \/ message[1] # "s" \/ IsLineTerminator(message[2])
    THEN {}
    ELSE { ij \in (3..Len(message)) \X (4..Len(message)) :
             /\ ij[1] < ij[2]
             /\ message[ij[1]] = message[2]
             /\ message[ij[2]] = message[2]
             /\ \A k \in 3..(ij[2] - 1) : ~IsLineTerminator(message[k])
             /\ Len(message) - ij[2] <= 1
             /\ \A k \in (ij[2] + 1)..Len(message) : ~IsLineTerminator(message[k]) }

\* The ways the pattern can match the whole message: <<i, j>> are the places
\* of the second and third \1.  (.) is message[2], (.*?) are the characters
\* between the delimiters, ([g]?)$ is what follows the third up to the end.
regexPatternMatches(message) ==
    IF Len(message) < 2 \/ message[1] # "s" \/ IsLineTerminator(message[2])
    THEN {}
    ELSE { ij \in (3..Len(message)) \X (4..Len(message)) :
             /\ ij[1] < ij[2]
             /\ message[ij[1]] = message[2]
             /\ message[ij[2]] = message[2]
             /\ NoLineTerminator(message, 3, ij[1] - 1)
             /\ NoLineTerminator(message, ij[1] + 1, ij[2] - 1)
             /\ SubSeq(message, ij[2] + 1, Len(message)) \in {<< >>, <<"g">>} }

\* greedy groups, (.*) for (.*?): the longest find first and, for it, the
\* longest replace
LastMatch(ms) ==
    CHOOSE ij \in ms :
        \A other \in ms :
            \/ ij[1] > other[1]
            \/ (ij[1] = other[1] /\ ij[2] >= other[2])

\* Both (.*?) are lazy: the engine tries the shortest find first and, for it,
\* the shortest replace; it lengthens a group only when the rest fails.
FirstMatch(ms) ==
    CHOOSE ij \in ms :
        \A other \in ms :
            \/ ij[1] < other[1]
            \/ (ij[1] = other[1] /\ ij[2] <= other[2])

\* message.match(regexPattern): << >> for null, else the match array, whose
\* JavaScript index k is index k + 1 here.
match(message) ==
    LET ms == regexPatternMatches(message)
    IN  IF ms = {} THEN << >>
        ELSE LET ij == FirstMatch(ms)
             IN  << message,
                    <<message[2]>>,
                    SubSeq(message, 3, ij[1] - 1),
                    SubSeq(message, ij[1] + 1, ij[2] - 1),
                    SubSeq(message, ij[2] + 1, Len(message)) >>

\* the global flag dropped
flagsNone(m) == << >>

findPattern(m) == m[3]   \* match[2]
replaceStr(m) == m[4]    \* match[3]
flags(m) == m[5]         \* match[4] || ''

----------------------------------------------------------------------------
(* new RegExp(findPattern, flags) and fileContent.replace(regExp, replaceStr) *)
(* for patterns made of literal characters, '.' and '(' : the alphabets of    *)
(* the model hold no ')' , so a group is never closed.                        *)

\* a compiler that accepts every pattern
RegExpThrowsNever(pattern) == FALSE

\* new RegExp throws a SyntaxError (unterminated group)
RegExpThrows(pattern) == \E k \in 1..Len(pattern) : pattern[k] = "("

RegExp(pattern, fl) ==
    [source |-> pattern, global |-> \E k \in 1..Len(fl) : fl[k] = "g"]

PatternCharMatches(p, c) ==
    IF p = "." THEN ~IsLineTerminator(c) ELSE p = c

\* whether the pattern matches S at the 0-based index
MatchesAt(S, pattern, index) ==
    /\ index + Len(pattern) <= Len(S)
    /\ \A k \in 1..Len(pattern) : PatternCharMatches(pattern[k], S[index + k])

\* RegExpBuiltinExec: the index of the leftmost match at or after lastIndex,
\* or -1
RegExpExec(S, pattern, lastIndex) ==
    LET found == { i \in lastIndex..Len(S) : MatchesAt(S, pattern, i) }
    IN  IF found = {} THEN -1
        ELSE CHOOSE i \in found : \A other \in found : i <= other

\* GetSubstitution: $$ is a dollar sign, $& the matched text; the pattern has
\* no groups, so every other $ stands for itself
RECURSIVE GetSubstitution(_, _)
GetSubstitution(matched, replacement) ==
    IF replacement = << >> THEN << >>
    ELSE IF Len(replacement) >= 2 /\ replacement[1] = "$" /\ replacement[2] = "$"
    THEN <<"$">> \o GetSubstitution(matched, SubSeq(replacement, 3, Len(replacement)))
    ELSE IF Len(replacement) >= 2 /\ replacement[1] = "$" /\ replacement[2] = "&"
    THEN matched \o GetSubstitution(matched, SubSeq(replacement, 3, Len(replacement)))
    ELSE <<replacement[1]>> \o GetSubstitution(matched, Tail(replacement))

\* RegExp.prototype[Symbol.replace]: match from lastIndex, copy the text since
\* the previous match and the substitution; without the global flag stop
\* after the first match, with it go on from the end of the match (one
\* further on after an empty match).
RECURSIVE ReplaceLoop(_, _, _, _, _, _)
ReplaceLoop(S, regExp, replacement, lastIndex, nextSourcePosition, accumulated) ==
    LET position == RegExpExec(S, regExp.source, lastIndex)
        matchLength == Len(regExp.source)
        matched == Substring(S, position, position + matchLength)
        result == accumulated
                    \o Substring(S, nextSourcePosition, position)
                    \o GetSubstitution(matched, replacement)
    IN  IF position = -1
        THEN accumulated \o Substring(S, nextSourcePosition, Len(S))
        ELSE IF ~regExp.global
        THEN result \o Substring(S, position + matchLength, Len(S))
        ELSE ReplaceLoop(S, regExp, replacement,
                         IF matchLength = 0 THEN position + 1
                                            ELSE position + matchLength,
                         position + matchLength, result)

\* String.prototype.replace
replace(S, regExp, replacement) ==
    ReplaceLoop(S, regExp, replacement, 0, 0, << >>)

----------------------------------------------------------------------------
(* Responses and the record of an exchange *)

Null == [kind |-> "null", val |-> << >>]
\* a read that drops the content
CodeObjectEmpty(code) == [kind |-> "code", val |-> << >>]
CodeObject(code) == [kind |-> "code", val |-> code]                 \* { code }
NewContentObject(newContent) == [kind |-> "newContent", val |-> newContent]
OutputObject == [kind |-> "stdout, stderr", val |-> << >>]          \* { stdout, stderr }

Message(text, filename) == [text |-> text, filename |-> filename]

BAD_REQUEST == 400
NOT_FOUND == 404
CONFLICT == 409
INTERNAL_SERVER_ERROR == 500
OK == 200

\* new ServiceResponse(status, message, responseObject, statusCode), sent by
\* handleServiceResponse
ServiceResponse(status, message, responseObject, statusCode) ==
    [sent |-> TRUE,
     success |-> (status = "Success"),
     message |-> message,
     responseObject |-> responseObject,
     statusCode |-> statusCode]

NoResponse ==
    [sent |-> FALSE, success |-> FALSE, message |-> Message("", << >>),
     responseObject |-> Null, statusCode |-> 0]

FileTypeNotAllowed ==
    ServiceResponse("Failed", Message("File type not allowed", << >>), Null, BAD_REQUEST)

\* a missing file reported as a bad request
FileNotFoundBadRequest(filename) ==
    ServiceResponse("Failed", Message("File ${filename} not found", filename), Null, BAD_REQUEST)

FileNotFound(filename) ==
    ServiceResponse("Failed", Message("File ${filename} not found", filename), Null, NOT_FOUND)

\* existsSync that finds no file
existsSyncNever(dir, filename) == FALSE

\* fs.existsSync
existsSync(dir, filename) == filename \in DOMAIN dir

\* what a directory holds under a name
Stat(dir, filename) ==
    IF existsSync(dir, filename)
    THEN [exists |-> TRUE, content |-> dir[filename]]
    ELSE [exists |-> FALSE, content |-> << >>]

\* the directory with the file written / removed
WithFile(dir, filename, data) ==
    [f \in DOMAIN dir \cup {filename} |-> IF f = filename THEN data ELSE dir[f]]

WithoutFile(dir, filename) ==
    [f \in DOMAIN dir \ {filename} |-> dir[f]]

EmptyDir == [f \in {} |-> << >>]

\* the files of a directory of the disk; a directory that does not exist
\* holds none
Directory(dir) ==
    IF dir = codeStorageDir THEN files
    ELSE IF dir = trashDirPath THEN trash
    ELSE IF dir = dirname(codeStorageDir) THEN outside
    ELSE EmptyDir

DirectoryExists(dir) ==
    \/ dir = codeStorageDir
    \/ dir = dirname(codeStorageDir)
    \/ (dir = trashDirPath /\ trashDir)

\* the disk after a call left directory dir holding the files d
Store(dir, d) ==
    /\ files' = IF dir = codeStorageDir THEN d ELSE files
    /\ trash' = IF dir = trashDirPath THEN d ELSE trash
    /\ outside' = IF dir = dirname(codeStorageDir) THEN d ELSE outside

\* the disk after a rename from a directory to another one
StoreBoth(from, dFrom, to, dTo) ==
    LET After(dir, d) == IF dir = from THEN dFrom ELSE IF dir = to THEN dTo ELSE d
    IN  /\ files' = After(codeStorageDir, files)
        /\ trash' = After(trashDirPath, trash)
        /\ outside' = After(dirname(codeStorageDir), outside)

\* whether an fs call throws an unexpected error
Faults == IF ioFaulty THEN {FALSE, TRUE} ELSE {FALSE}

\* a write that creates the file and loses the data
writeFileSyncEmpty(dir, filename, data, err) ==
    {WithFile(dir, filename, << >>)}

\* fs.writeFileSync: the directories it can leave. When it throws, the file
\* is as it was, or was opened (created, truncated) and holds part of the data.
writeFileSync(dir, filename, data, err) ==
    IF ~err THEN {WithFile(dir, filename, data)}
    ELSE {dir} \cup {WithFile(dir, filename, SubSeq(data, 1, n)) : n \in 0..(Len(data) - 1)}

\* a rename that removes the file and puts nothing at the new path
renameSyncUnlink(from, to, filename) ==
    [from |-> [f \in DOMAIN from \ {filename} |-> from[f]], to |-> to]

\* fs.renameSync(filePath, trashPath): replaces a file already at trashPath
renameSync(from, to, filename) ==
    [from |-> WithoutFile(from, filename), to |-> WithFile(to, filename, from[filename])]

NoExchange ==
    [method |-> "none", filename |-> << >>, body |-> Undefined,
     before |-> [file |-> Stat(EmptyDir, << >>), trash |-> Stat(EmptyDir, << >>)],
     match |-> << >>, fsCalls |-> << >>, response |-> NoResponse]

\* the handler of method for filename and body parsed its message into m
\* (PATCH), made fsCalls and sent response; before is what filePath and
\* trashPath held when the request arrived
HandledPatch(method, filename, body, m, fsCalls, response) ==
    /\ exchange' = [method |-> method, filename |-> filename, body |-> body,
                    before |-> [file |-> Stat(Directory(dirname(filePath(filename))),
                                              basename(filePath(filename))),
                                trash |-> Stat(Directory(dirname(trashPath(filename))),
                                               basename(trashPath(filename)))],
                    match |-> m, fsCalls |-> fsCalls, response |-> response]

Handled(method, filename, body, fsCalls, response) ==
    HandledPatch(method, filename, body, << >>, fsCalls, response)

----------------------------------------------------------------------------
(* The handlers *)

\* a call of fs as the exchange records it
Called(call, err) == IF err THEN <<call, "throws">> ELSE <<call>>

\* GET: Return source code
Get(filename) ==
    /\ UNCHANGED <<files, trashDir, trash, outside, execs, clientNames, ioFaulty>>
    /\ LET dir == Directory(dirname(filePath(filename)))
           name == basename(filePath(filename))
       IN  IF ~isAllowedFile(filename)
           THEN Handled("GET", filename, Undefined, << >>, FileTypeNotAllowed)
           ELSE IF ~existsSync(dir, name)
           THEN Handled("GET", filename, Undefined, <<"existsSync">>, FileNotFound(filename))
           ELSE \E err \in Faults :
                  Handled("GET", filename, Undefined,
                      <<"existsSync">> \o Called("readFileSync", err),
                      IF err
                      THEN ServiceResponse("Failed",
                               Message("Error reading file: ${err.message}", << >>),
                               Null, INTERNAL_SERVER_ERROR)
                      ELSE ServiceResponse("Success",
                               Message("File ${filename} read successfully", filename),
                               CodeObject(dir[name]), OK))

\* no interpreter for any extension
commandNone(filename) == << >>

\* the interpreter of a file, by its extension; << >> when there is none
command(filename) ==
    IF endsWith(filename, <<".", "p", "y">>) THEN <<"python">>
    ELSE IF endsWith(filename, <<".", "j", "a", "c">>) THEN <<"jac", "run">>
    ELSE << >>

\* POST: Execute file and return result. The handler starts the process and
\* returns; the response is sent by the callback of exec.
Post(filename) ==
    /\ UNCHANGED <<files, trashDir, trash, outside, clientNames, ioFaulty>>
    /\ LET dir == Directory(dirname(filePath(filename)))
           name == basename(filePath(filename))
       IN  IF ~isAllowedFile(filename)
           THEN /\ Handled("POST", filename, Undefined, << >>, FileTypeNotAllowed)
                /\ UNCHANGED execs
           ELSE IF ~existsSync(dir, name)
           THEN /\ Handled("POST", filename, Undefined, <<"existsSync">>,
                       FileNotFound(filename))
                /\ UNCHANGED execs
           ELSE IF command(filename) = << >>
           THEN /\ Handled("POST", filename, Undefined, <<"existsSync">>,
                      ServiceResponse("Failed", Message("Unsupported file extension", << >>),
                          Null, BAD_REQUEST))
                /\ UNCHANGED execs
           ELSE /\ Len(execs) < MaxExecs
                /\ execs' = Append(execs, [filename |-> filename,
                                           filePath |-> filePath(filename),
                                           command |-> command(filename)])
                /\ Handled("POST", filename, Undefined, <<"existsSync", "exec">>, NoResponse)

\* a sequence without its i-th element
Without(seq, i) == SubSeq(seq, 1, i - 1) \o SubSeq(seq, i + 1, Len(seq))

\* The callback of exec: process i has ended, with or without an error. The
\* interpreter (python filePath, jac run filePath) opened filePath at some
\* moment after the handler returned; what the requests served since then
\* left there is what it ran. The step stands for that moment and for the
\* callback: the exchange records in before.file what filePath holds now.
ExecCallback(i) ==
    /\ UNCHANGED <<files, trashDir, trash, outside, clientNames, ioFaulty>>
    /\ \E error \in BOOLEAN :
         /\ execs' = Without(execs, i)
         /\ Handled("POST", execs[i].filename, Undefined, << >>,
                IF error
                THEN ServiceResponse("Failed",
                         Message("Error executing file: ${error.message}", << >>),
                         OutputObject, INTERNAL_SERVER_ERROR)
                ELSE ServiceResponse("Success",
                         Message("Executed file ${filename} successfully",
                                 execs[i].filename),
                         OutputObject, OK))

\* PUT: Create new file
Put(filename, code) ==
    /\ UNCHANGED <<trashDir, execs, clientNames, ioFaulty>>
    /\ LET dirPath == dirname(filePath(filename))
           dir == Directory(dirPath)
           name == basename(filePath(filename))
       IN  IF ~isAllowedFile(filename)
           THEN /\ Handled("PUT", filename, code, << >>, FileTypeNotAllowed)
                /\ UNCHANGED <<files, trash, outside>>
           ELSE IF typeof(code) # "string"
           THEN /\ Handled("PUT", filename, code, << >>,
                      ServiceResponse("Failed", Message("Code must be a string", << >>),
                          Null, BAD_REQUEST))
                /\ UNCHANGED <<files, trash, outside>>
           ELSE IF existsSync(dir, name)
           THEN /\ Handled("PUT", filename, code, <<"existsSync">>,
                      ServiceResponse("Failed",
                          Message("File ${filename} already exists", filename),
                          Null, CONFLICT))
                /\ UNCHANGED <<files, trash, outside>>
           ELSE \E fault \in Faults :
                  \* writeFileSync throws ENOENT when the directory of the path
                  \* does not exist
                  LET err == fault \/ ~DirectoryExists(dirPath)
                  IN  /\ IF DirectoryExists(dirPath)
                         THEN \E d \in writeFileSync(dir, name, code.val, err) :
                                  Store(dirPath, d)
                         ELSE UNCHANGED <<files, trash, outside>>
                      /\ Handled("PUT", filename, code,
                             <<"existsSync">> \o Called("writeFileSync", err),
                             IF err
                             THEN ServiceResponse("Failed",
                                      Message("Error creating file: ${err.message}", << >>),
                                      Null, INTERNAL_SERVER_ERROR)
                             ELSE ServiceResponse("Success",
                                      Message("File ${filename} created successfully", filename),
                                      Null, OK))

\* a comparison that never finds the content unchanged
sameContentNever(newContent, fileContent) == FALSE

\* a comparison that finds every content unchanged
sameContentAlways(newContent, fileContent) == TRUE

\* newContent === fileContent
sameContent(newContent, fileContent) == newContent = fileContent

\* PATCH: Update existing file using find/replace logic
Patch(filename, message) ==
    /\ UNCHANGED <<trashDir, execs, clientNames, ioFaulty>>
    /\ LET dirPath == dirname(filePath(filename))
           dir == Directory(dirPath)
           name == basename(filePath(filename))
       IN  IF Falsy(message) \/ typeof(message) # "string"
           THEN /\ Handled("PATCH", filename, message, << >>,
                      ServiceResponse("Failed",
                          Message("Replacement message must be provided as a string", << >>),
                          Null, BAD_REQUEST))
                /\ UNCHANGED <<files, trash, outside>>
           ELSE IF ~isAllowedFile(filename)
           THEN /\ Handled("PATCH", filename, message, << >>, FileTypeNotAllowed)
                /\ UNCHANGED <<files, trash, outside>>
           ELSE IF ~existsSync(dir, name)
           THEN /\ Handled("PATCH", filename, message, <<"existsSync">>,
                       FileNotFound(filename))
                /\ UNCHANGED <<files, trash, outside>>
           ELSE \E readErr \in Faults, writeErr \in Faults :
                LET fileContent == dir[name]
                    m == match(message.val)
                    regExp == RegExp(findPattern(m), flags(m))
                    newContent == replace(fileContent, regExp, replaceStr(m))
                    read == <<"existsSync">> \o Called("readFileSync", readErr)
                    ErrorUpdating ==
                        ServiceResponse("Failed",
                            Message("Error updating file: ${err.message}", << >>),
                            Null, INTERNAL_SERVER_ERROR)
                IN  IF readErr
                    THEN /\ ~writeErr
                         /\ Handled("PATCH", filename, message, read, ErrorUpdating)
                         /\ UNCHANGED <<files, trash, outside>>
                    ELSE IF m = << >>
                    THEN /\ ~writeErr
                         /\ Handled("PATCH", filename, message, read,
                                ServiceResponse("Failed",
                                    Message("Invalid find/replace message format. Expected format: s<delimiter>find<delimiter>replace<delimiter>flags", << >>),
                                    Null, BAD_REQUEST))
                         /\ UNCHANGED <<files, trash, outside>>
                    ELSE IF RegExpThrows(findPattern(m))
                    THEN /\ ~writeErr
                         /\ HandledPatch("PATCH", filename, message, m, read,
                                ServiceResponse("Failed",
                                    Message("Invalid regular expression: ${err.message}", << >>),
                                    Null, BAD_REQUEST))
                         /\ UNCHANGED <<files, trash, outside>>
                    ELSE IF sameContent(newContent, fileContent)
                    THEN /\ ~writeErr
                         /\ HandledPatch("PATCH", filename, message, m, read,
                                ServiceResponse("Failed",
                                    Message("No matching text found in file ${filename} or replacement did not change the content", filename),
                                    NewContentObject(newContent), BAD_REQUEST))
                         /\ UNCHANGED <<files, trash, outside>>
                    ELSE /\ Len(newContent) <= MaxContentLen
                         /\ \E d \in writeFileSync(dir, name, newContent, writeErr) :
                                Store(dirPath, d)
                         /\ HandledPatch("PATCH", filename, message, m,
                                read \o Called("writeFileSync", writeErr),
                                IF writeErr
                                THEN ErrorUpdating
                                ELSE ServiceResponse("Success",
                                         Message("File ${filename} updated successfully", filename),
                                         NewContentObject(newContent), OK))

\* What the caller gets when a handler throws outside its try blocks: the
\* promise of the async handler is rejected; express 4 ignores it and sends
\* nothing, express 5 passes the error to its error handler, which answers 500.
Rejected ==
    { NoResponse,
      [sent |-> TRUE, success |-> FALSE,
       message |-> Message("Internal Server Error", << >>),
       responseObject |-> Null, statusCode |-> INTERNAL_SERVER_ERROR] }

\* DELETE: Move file to .trash folder
Delete(filename) ==
    /\ UNCHANGED <<execs, clientNames, ioFaulty>>
    /\ LET fromPath == dirname(filePath(filename))
           toPath == dirname(trashPath(filename))
           name == basename(filePath(filename))
       IN  IF ~isAllowedFile(filename)
           THEN /\ Handled("DELETE", filename, Undefined, << >>, FileTypeNotAllowed)
                /\ UNCHANGED <<files, trashDir, trash, outside>>
           ELSE IF ~existsSync(Directory(fromPath), name)
           THEN /\ Handled("DELETE", filename, Undefined, <<"existsSync">>,
                      FileNotFound(filename))
                /\ UNCHANGED <<files, trashDir, trash, outside>>
           ELSE \E mkdirErr \in Faults, fault \in Faults :
                IF ~trashDir /\ mkdirErr
                THEN \* mkdirSync throws outside the try
                     /\ ~fault
                     /\ \E response \in Rejected :
                            Handled("DELETE", filename, Undefined,
                                <<"existsSync", "existsSync">> \o Called("mkdirSync", TRUE),
                                response)
                     /\ UNCHANGED <<files, trashDir, trash, outside>>
                ELSE /\ trashDir' = TRUE
                     /\ (trashDir => ~mkdirErr)
                     /\ LET \* renameSync throws ENOENT when the directory of
                            \* trashPath does not exist
                            renameErr == fault \/ ~(toPath \in {codeStorageDir, trashDirPath,
                                                               dirname(codeStorageDir)})
                            calls == <<"existsSync", "existsSync">>
                                       \o (IF trashDir THEN << >> ELSE <<"mkdirSync">>)
                                       \o Called("renameSync", renameErr)
                            moved == renameSync(Directory(fromPath), Directory(toPath), name)
                        IN  IF renameErr
                            THEN /\ Handled("DELETE", filename, Undefined, calls,
                                        ServiceResponse("Failed",
                                            Message("Error moving file to trash: ${err.message}", << >>),
                                            Null, INTERNAL_SERVER_ERROR))
                                 /\ UNCHANGED <<files, trash, outside>>
                            ELSE /\ StoreBoth(fromPath, moved.from, toPath, moved.to)
                                 /\ Handled("DELETE", filename, Undefined, calls,
                                        ServiceResponse("Success",
                                            Message("File ${filename} moved to trash successfully", filename),
                                            Null, OK))

----------------------------------------------------------------------------
(* Requests served *)

ContentChars == {"a", "b"}

\* CodeFileSaveRequestSchema: { code: z.string().nonempty(...) }, registered
\* for PUT /:filename in the OpenAPI registry; whether a body satisfies it
CodeFileSaveRequestSchema(code) ==
    typeof(code) = "string" /\ Len(code.val) >= 1

\* the code of a PUT body: contents, and a missing or non-string code
Codes ==
    {Str(<< >>), Str(<<"a", "a">>), Str(<<"a", "b">>), Undefined, Number}

\* s<delimiter>find<delimiter>replace<delimiter>flags
Cmd(delimiter, find, replacement, fl) ==
    <<"s", delimiter>> \o find \o <<delimiter>> \o replacement \o <<delimiter>> \o fl

\* the message of a PATCH body: commands, text that is no command, and a
\* missing, empty or non-string message
Messages ==
    { Str(Cmd("/", <<"a">>, <<"b">>, << >>)),          \* s/a/b/
      Str(Cmd("/", <<"a">>, <<"b">>, <<"g">>)),       \* s/a/b/g
      Str(Cmd("/", <<"a">>, <<"$", "&">>, << >>)),    \* s/a/$&/
      Str(Cmd("#", <<".">>, <<"b">>, <<"g">>)),       \* s#.#b#g
      Str(Cmd("/", << >>, <<"b">>, << >>)),           \* s//b/
      Str(Cmd("/", <<"(">>, <<"b">>, << >>)),         \* s/(/b/
      Str(Cmd("/", <<"a">>, <<"b">>, <<"x">>)),       \* s/a/b/x
      Str(<<"n", "o">>),
      Str(<< >>), Undefined, Number }

Init ==
    /\ files = EmptyDir
    /\ trashDir = FALSE
    /\ trash = EmptyDir
    /\ outside = EmptyDir
    /\ execs = << >>
    /\ exchange = NoExchange
    /\ requests = << >>
    /\ checked = << >>
    /\ clientNames \in NameSets
    /\ ioFaulty = FALSE

Next ==
    \/ \E filename \in clientNames : Get(filename) /\ UNCHANGED <<requests, checked>>
    \/ \E filename \in clientNames : Post(filename) /\ UNCHANGED <<requests, checked>>
    \/ \E i \in 1..Len(execs) : ExecCallback(i) /\ UNCHANGED <<requests, checked>>
    \/ \E filename \in clientNames, code \in Codes :
           Put(filename, code) /\ UNCHANGED <<requests, checked>>
    \/ \E filename \in clientNames, message \in Messages :
           Patch(filename, message) /\ UNCHANGED <<requests, checked>>
    \/ \E filename \in clientNames : Delete(filename) /\ UNCHANGED <<requests, checked>>

Spec == Init /\ [][Next]_vars

----------------------------------------------------------------------------
(* The find/replace commands, exhaustively: a PATCH request with any text  *)
(* of up to MaxCmdLen characters as its message arrives for a file that    *)
(* exists, and the handler serves it.                                      *)

CmdChars == {"s", "g", "/", "a", LF}

Commands == SeqsUpTo(CmdChars, MaxCmdLen)

JacFile == <<"b", ".", "j", "a", "c">>

\* a request that has arrived and is not handled yet
Received(method, filename, body) ==
    [method |-> method, filename |-> filename, body |-> body,
     before |-> [file |-> Stat(EmptyDir, << >>), trash |-> Stat(EmptyDir, << >>)],
     match |-> << >>, fsCalls |-> << >>, response |-> NoResponse]

InitParse ==
    /\ \E content \in {<< >>, <<"a">>} : files = WithFile(EmptyDir, JacFile, content)
    /\ trashDir = FALSE
    /\ trash = EmptyDir
    /\ outside = EmptyDir
    /\ execs = << >>
    /\ \E cmd \in Commands : exchange = Received("PATCH", JacFile, Str(cmd))
    /\ requests = << >>
    /\ checked = << >>
    /\ clientNames = {JacFile}
    /\ ioFaulty = FALSE

PatchReceived ==
    /\ exchange = Received("PATCH", exchange.filename, exchange.body)
    /\ Patch(exchange.filename, exchange.body)
    /\ UNCHANGED <<requests, checked>>

NextParse == PatchReceived

SpecParse == InitParse /\ [][NextParse]_vars

----------------------------------------------------------------------------
(* Filenames with path segments: the clients ask for a.py and for a name   *)
(* that resolves to a path outside code_storage or inside its .trash.      *)

PathNameSets == { {ParentName}, {PyFile, TrashName} }

InitPath ==
    /\ files = EmptyDir
    /\ trashDir = FALSE
    /\ trash = EmptyDir
    /\ outside = EmptyDir
    /\ execs = << >>
    /\ exchange = NoExchange
    /\ requests = << >>
    /\ checked = << >>
    /\ clientNames \in PathNameSets
    /\ ioFaulty = FALSE

SpecPath == InitPath /\ [][Next]_vars

----------------------------------------------------------------------------
(* The same requests over a filesystem whose calls can fail: readFileSync, *)
(* writeFileSync, mkdirSync and renameSync may throw an unexpected error.  *)

InitFaults ==
    /\ files = EmptyDir
    /\ trashDir = FALSE
    /\ trash = EmptyDir
    /\ outside = EmptyDir
    /\ execs = << >>
    /\ exchange = NoExchange
    /\ requests = << >>
    /\ checked = << >>
    /\ clientNames = {PyFile, <<"c", ".", "t", "x", "t">>}
    /\ ioFaulty = TRUE

SpecFaults == InitFaults /\ [][Next]_vars

----------------------------------------------------------------------------
(* Several PUT requests for one absent filename arrive together and the    *)
(* event loop runs their handlers in any order.  The handler is an async   *)
(* function without an await: existsSync and writeFileSync run in one turn *)
(* of the loop.                                                            *)

\* a PUT request that is not answered yet
Arrived(filename, code) == [filename |-> filename, code |-> code, statusCode |-> 0]

StringCodes == {code \in Codes : typeof(code) = "string"}

InitRace ==
    /\ files = EmptyDir
    /\ trashDir = FALSE
    /\ trash = EmptyDir
    /\ outside = EmptyDir
    /\ execs = << >>
    /\ exchange = NoExchange
    /\ \E n \in 2..MaxRacers :
          requests \in [1..n -> {Arrived(PyFile, code) : code \in StringCodes}]
    /\ checked = << >>
    /\ clientNames = {PyFile}
    /\ ioFaulty = FALSE

\* the handler of request i runs
ServePut(i) ==
    /\ requests[i].statusCode = 0
    /\ Put(requests[i].filename, requests[i].code)
    /\ requests' = [requests EXCEPT ![i].statusCode = exchange'.response.statusCode]
    /\ UNCHANGED checked

NextRace == \E i \in DOMAIN requests : ServePut(i)

SpecRace == InitRace /\ [][NextRace]_vars

----------------------------------------------------------------------------
(* Executions observed: for every process started, what the existence      *)
(* check of the POST handler found at filePath is kept until its callback,  *)
(* while GET, PUT, PATCH and DELETE requests for the same file are served.  *)

ExecCodes == {Str(<<"a", "a">>), Str(<<"a", "b">>)}

ExecMessages == {Str(Cmd("/", <<"a">>, <<"b">>, << >>)),
                 Str(Cmd("/", <<"b">>, <<"a">>, <<"g">>))}

InitExec ==
    /\ files = EmptyDir
    /\ trashDir = FALSE
    /\ trash = EmptyDir
    /\ outside = EmptyDir
    /\ execs = << >>
    /\ exchange = NoExchange
    /\ requests = << >>
    /\ checked = << >>
    /\ clientNames \in NameSets
    /\ ioFaulty = FALSE

\* the POST handler, and what it found at filePath when it started a process
PostObserved(filename) ==
    /\ Post(filename)
    /\ checked' = IF Len(execs') > Len(execs)
                  THEN Append(checked, Stat(Directory(dirname(filePath(filename))),
                                            basename(filePath(filename))))
                  ELSE checked

ExecCallbackObserved(i) ==
    /\ ExecCallback(i)
    /\ checked' = Without(checked, i)

NextExec ==
    \/ \E filename \in clientNames : Get(filename) /\ UNCHANGED <<requests, checked>>
    \/ \E filename \in clientNames : PostObserved(filename) /\ UNCHANGED requests
    \/ \E i \in 1..Len(execs) : ExecCallbackObserved(i) /\ UNCHANGED requests
    \/ \E filename \in clientNames, code \in ExecCodes :
           Put(filename, code) /\ UNCHANGED <<requests, checked>>
    \/ \E filename \in clientNames, message \in ExecMessages :
           Patch(filename, message) /\ UNCHANGED <<requests, checked>>
    \/ \E filename \in clientNames : Delete(filename) /\ UNCHANGED <<requests, checked>>

SpecExec == InitExec /\ [][NextExec]_vars

----------------------------------------------------------------------------
(* Every process started by exec ends: its callback runs.                   *)

ProcessesEnd ==
    WF_vars(\E i \in 1..Len(execs) : ExecCallback(i) /\ UNCHANGED <<requests, checked>>)

SpecFaultsFair == SpecFaults /\ ProcessesEnd

----------------------------------------------------------------------------
(* Properties *)

\* C1: for every filename that ends in neither .py nor .jac, every operation,
\* whatever its body, fails with 'File type not allowed' (400) and makes no
\* fs call before it fails.
C1_RefusedBeforeAnyIO ==
    (exchange.method \in Methods /\ ~isAllowedFile(exchange.filename))
        => (exchange.response = FileTypeNotAllowed /\ exchange.fsCalls = << >>)

\* C2, as stated: whatever the store holds, a PUT of a string C to an allowed
\* f followed at once by a GET of f returns exactly C.
C2_RoundTripFromAnyState ==
    [][ ( /\ exchange.method = "PUT"
          /\ isAllowedFile(exchange.filename)
          /\ typeof(exchange.body) = "string"
          /\ exchange'.method = "GET"
          /\ exchange'.filename = exchange.filename )
        => /\ exchange'.response.statusCode = OK
           /\ exchange'.response.responseObject.kind = "code"
           /\ exchange'.response.responseObject.val = exchange.body.val ]_vars

\* C2, amended: when the PUT of a string C to an allowed f succeeds (f was
\* absent), the GET of f that follows at once succeeds and returns exactly C.
C2_RoundTrip ==
    [][ ( /\ exchange.method = "PUT"
          /\ isAllowedFile(exchange.filename)
          /\ typeof(exchange.body) = "string"
          /\ exchange.response.statusCode = OK
          /\ exchange'.method = "GET"
          /\ exchange'.filename = exchange.filename )
        => /\ exchange'.response.statusCode = OK
           /\ exchange'.response.success
           /\ exchange'.response.responseObject.kind = "code"
           /\ exchange'.response.responseObject.val = exchange.body.val ]_vars

\* a PUT of a non-empty content has just succeeded and the file holds it: the
\* state from which the GET of C2 is served
C2_Witness ==
    /\ exchange.method = "PUT"
    /\ exchange.response.statusCode = OK
    /\ exchange.body.val # << >>
    /\ exchange.filename \in DOMAIN files
    /\ files[exchange.filename] = exchange.body.val

\* C3: a DELETE of an allowed f present in the storage root succeeds, f is
\* then absent from the root and the trash holds f with the content it had;
\* a second DELETE of f right after fails with 'not found' (404) and changes
\* nothing.
C3_SoftDelete ==
    [][ /\ ( /\ exchange'.method = "DELETE"
             /\ isAllowedFile(exchange'.filename)
             /\ exchange'.filename \in DOMAIN files )
           => /\ exchange'.response.statusCode = OK
              /\ exchange'.response.success
              /\ exchange'.filename \notin DOMAIN files'
              /\ exchange'.filename \in DOMAIN trash'
              /\ trash'[exchange'.filename] = files[exchange'.filename]
        /\ ( /\ exchange.method = "DELETE"
             /\ exchange.response.statusCode = OK
             /\ exchange'.method = "DELETE"
             /\ exchange'.filename = exchange.filename )
           => /\ exchange'.response = FileNotFound(exchange.filename)
              /\ ~exchange'.response.success
              /\ UNCHANGED <<files, trashDir, trash>> ]_vars

\* a file with some content has just been moved to the trash
C3_Witness ==
    /\ exchange.method = "DELETE"
    /\ exchange.response.statusCode = OK
    /\ exchange.before.file.exists
    /\ exchange.before.file.content # << >>
    /\ exchange.filename \notin DOMAIN files
    /\ trash[exchange.filename] = exchange.before.file.content

\* C4: a DELETE that reports success has not replaced a different content
\* the trash already held under the same name.
C4_NoSilentOverwriteInTrash ==
    ( /\ exchange.method = "DELETE"
      /\ exchange.response.success
      /\ exchange.before.trash.exists )
        => trash[exchange.filename] = exchange.before.trash.content

----------------------------------------------------------------------------
(* What a find/replace command asks for, said without the engine *)

\* the pattern (literal characters and '.') occurs in S from the 1-based place i
OccursAt(S, pattern, i) ==
    /\ i + Len(pattern) - 1 <= Len(S)
    /\ \A k \in 1..Len(pattern) :
          \/ pattern[k] = S[i + k - 1]
          \/ (pattern[k] = "." /\ S[i + k - 1] # LF)

Occurs(S, pattern) == \E i \in 1..(Len(S) + 1) : OccursAt(S, pattern, i)

Leftmost(S, pattern) ==
    CHOOSE i \in 1..(Len(S) + 1) :
        /\ OccursAt(S, pattern, i)
        /\ \A j \in 1..(i - 1) : ~OccursAt(S, pattern, j)

\* S with the leftmost occurrence replaced and the rest as it was
FirstReplaced(S, pattern, replacement) ==
    LET i == Leftmost(S, pattern)
    IN  SubSeq(S, 1, i - 1) \o replacement \o SubSeq(S, i + Len(pattern), Len(S))

\* S with every occurrence replaced, left to right, none overlapping another
RECURSIVE AllReplaced(_, _, _)
AllReplaced(S, pattern, replacement) ==
    IF ~Occurs(S, pattern) THEN S
    ELSE LET i == Leftmost(S, pattern)
         IN  SubSeq(S, 1, i - 1) \o replacement
                \o AllReplaced(SubSeq(S, i + Len(pattern), Len(S)), pattern, replacement)

\* the number of occurrences, left to right, none overlapping another
RECURSIVE Occurrences(_, _)
Occurrences(S, pattern) ==
    IF ~Occurs(S, pattern) THEN 0
    ELSE 1 + Occurrences(SubSeq(S, Leftmost(S, pattern) + Len(pattern), Len(S)), pattern)

HasChar(s, c) == \E k \in 1..Len(s) : s[k] = c

\* the exchange after the step is a PATCH of a file that was present, with a
\* command that parses and whose find compiles
PatchesWithDirective ==
    /\ exchange'.method = "PATCH"
    /\ isAllowedFile(exchange'.filename)
    /\ exchange'.filename \in DOMAIN files
    /\ typeof(exchange'.body) = "string"
    /\ match(exchange'.body.val) # << >>
    /\ ~RegExpThrows(findPattern(match(exchange'.body.val)))

NoEffectiveChange(filename) ==
    Message("No matching text found in file ${filename} or replacement did not change the content", filename)

\* C6: a PATCH of a file that exists, with a well-formed directive whose find
\* pattern does not occur in the content, leaves the content on disk as it
\* was and reports 'No matching text found' (400).
C6_NoMatchRejected ==
    [][ ( /\ PatchesWithDirective
          /\ ~Occurs(files[exchange'.filename], findPattern(match(exchange'.body.val))) )
        => /\ exchange'.response.statusCode = BAD_REQUEST
           /\ ~exchange'.response.success
           /\ exchange'.response.message = NoEffectiveChange(exchange'.filename)
           /\ UNCHANGED <<files, trashDir, trash>> ]_vars

\* a PATCH whose find is not in the non-empty content has just been rejected
C6_Witness ==
    /\ exchange.method = "PATCH"
    /\ exchange.response.message = NoEffectiveChange(exchange.filename)
    /\ exchange.match # << >>
    /\ findPattern(exchange.match) # << >>
    /\ exchange.before.file.content # << >>
    /\ ~Occurs(exchange.before.file.content, findPattern(exchange.match))
    /\ files[exchange.filename] = exchange.before.file.content

\* what the PATCH after the step is to leave in the file
Substituted ==
    LET m == match(exchange'.body.val)
    IN  replace(files[exchange'.filename], RegExp(findPattern(m), flags(m)), replaceStr(m))

PatchPersistedAndEchoed ==
    /\ exchange'.response.statusCode = OK
    /\ exchange'.response.success
    /\ DOMAIN files' = DOMAIN files
    /\ files'[exchange'.filename] = Substituted
    /\ exchange'.response.responseObject.kind = "newContent"
    /\ exchange'.response.responseObject.val = files'[exchange'.filename]
    /\ (/\ files[exchange'.filename] = <<"a", "a">>
        /\ exchange'.body.val = <<"s", "/", "a", "/", "b", "/", "g">>)
           => files'[exchange'.filename] = <<"b", "b">>
    /\ UNCHANGED <<trashDir, trash>>

\* C7, as stated: a PATCH of a file that exists with a directive that matches
\* leaves the substituted content on disk, reports success (200) and echoes
\* the content now on disk.
C7_MatchingPatchSucceeds ==
    [][ ( /\ PatchesWithDirective
          /\ Occurs(files[exchange'.filename], findPattern(match(exchange'.body.val))) )
        => PatchPersistedAndEchoed ]_vars

\* C7, amended: the same for a directive that matches and whose substitution
\* changes the content.
C7_PatchPersistsAndEchoes ==
    [][ ( /\ PatchesWithDirective
          /\ Occurs(files[exchange'.filename], findPattern(match(exchange'.body.val)))
          /\ Substituted # files[exchange'.filename] )
        => PatchPersistedAndEchoed ]_vars

\* s/a/b/g has just turned a file holding aa into bb, echoed in the response
C7_Witness ==
    /\ exchange.method = "PATCH"
    /\ exchange.response.statusCode = OK
    /\ exchange.body.val = <<"s", "/", "a", "/", "b", "/", "g">>
    /\ exchange.before.file.content = <<"a", "a">>
    /\ files[exchange.filename] = <<"b", "b">>
    /\ exchange.response.responseObject.val = <<"b", "b">>

\* C10: on a content with several occurrences of the find pattern, none
\* overlapping another, a directive without g replaces the leftmost one and
\* leaves the others, and a directive with g replaces every one, left to
\* right.  (Commands whose delimiter is not g, find not empty, replace
\* without $.)
C10_FirstOrAll ==
    [][ LET cmd == exchange'.body.val
            m == match(cmd)
            content == files[exchange'.filename]
        IN  ( /\ PatchesWithDirective
              /\ cmd[2] # "g"
              /\ findPattern(m) # << >>
              /\ ~HasChar(replaceStr(m), "$")
              /\ Occurrences(content, findPattern(m)) >= 2 )
            => /\ exchange'.filename \in DOMAIN files'
               /\ files'[exchange'.filename] =
                     IF cmd[Len(cmd)] = "g"
                     THEN AllReplaced(content, findPattern(m), replaceStr(m))
                     ELSE FirstReplaced(content, findPattern(m), replaceStr(m)) ]_vars

\* s/a/b/ without g has just turned aa into ba
C10_Witness ==
    /\ exchange.method = "PATCH"
    /\ exchange.response.statusCode = OK
    /\ exchange.body.val = <<"s", "/", "a", "/", "b", "/">>
    /\ exchange.before.file.content = <<"a", "a">>
    /\ files[exchange.filename] = <<"b", "a">>

----------------------------------------------------------------------------
(* The command grammar (under SpecParse) *)

InvalidDirectiveFormat ==
    ServiceResponse("Failed",
        Message("Invalid find/replace message format. Expected format: s<delimiter>find<delimiter>replace<delimiter>flags", << >>),
        Null, BAD_REQUEST)

\* the ways to read cmd as s D find D replace D with an optional g after it:
\* <<i, j>> are the places of the D that ends find and the D that ends replace
Readings(cmd) ==
    IF Len(cmd) < 4 \/ cmd[1] # "s" THEN {}
    ELSE { ij \in (3..Len(cmd)) \X (4..Len(cmd)) :
             /\ ij[1] < ij[2]
             /\ cmd[ij[1]] = cmd[2]
             /\ cmd[ij[2]] = cmd[2]
             /\ \/ ij[2] = Len(cmd)
                \/ (ij[2] = Len(cmd) - 1 /\ cmd[Len(cmd)] = "g") }

\* a reading whose find and replace hold neither the delimiter nor a line
\* terminator
Plain(cmd, ij) ==
    /\ ~IsLineTerminator(cmd[2])
    /\ \A k \in (3..(ij[1] - 1)) \cup ((ij[1] + 1)..(ij[2] - 1)) :
          cmd[k] # cmd[2] /\ ~IsLineTerminator(cmd[k])

\* the handler parsed the command as the reading says
ParsedAs(cmd, ij) ==
    /\ exchange.match # << >>
    /\ findPattern(exchange.match) = SubSeq(cmd, 3, ij[1] - 1)
    /\ replaceStr(exchange.match) = SubSeq(cmd, ij[1] + 1, ij[2] - 1)
    /\ RegExp(findPattern(exchange.match), flags(exchange.match)).global
          = (ij[2] < Len(cmd))
    /\ exchange.response # InvalidDirectiveFormat

RejectedUnchanged ==
    /\ exchange.response = InvalidDirectiveFormat
    /\ exchange.match = << >>
    /\ exchange.filename \in DOMAIN files
    /\ files[exchange.filename] = exchange.before.file.content
    /\ trash = EmptyDir

\* a PATCH of the file that exists has been answered
PatchAnswered ==
    /\ exchange.method = "PATCH"
    /\ exchange.response.sent
    /\ exchange.before.file.exists
    /\ typeof(exchange.body) = "string"

\* C8, as stated: every command that reads as s D find D replace D with an
\* optional g parses to that find, that replace and global = (g present);
\* every other command (the message is not empty) fails with 'Invalid
\* find/replace message format' (400) and the file is left as it was.
C8_EveryReadingParsed ==
    (PatchAnswered /\ exchange.body.val # << >>) =>
        LET cmd == exchange.body.val
        IN  /\ \A ij \in Readings(cmd) : ParsedAs(cmd, ij)
            /\ (Readings(cmd) = {}) => RejectedUnchanged

\* C8, amended: every command s D find D replace D with an optional g whose
\* find and replace hold neither D nor a line terminator (D none either)
\* parses to that find, that replace and global = (g present); every command
\* that is not empty and does not read so, or holds a line terminator, fails
\* with 'Invalid find/replace message format' (400) and the file is left as
\* it was; the empty command fails (400) as a missing message.
C8_DirectiveParsing ==
    PatchAnswered =>
        LET cmd == exchange.body.val
        IN  /\ \A ij \in Readings(cmd) : Plain(cmd, ij) => ParsedAs(cmd, ij)
            /\ (cmd # << >> /\ (Readings(cmd) = {} \/ HasChar(cmd, LF)))
                  => RejectedUnchanged
            /\ (cmd = << >>)
                  => /\ exchange.response.statusCode = BAD_REQUEST
                     /\ exchange.response.message =
                           Message("Replacement message must be provided as a string", << >>)
                     /\ files[exchange.filename] = exchange.before.file.content

\* s/a//g has been parsed: find a, replace empty, global; on a file holding a
C8_Witness ==
    /\ PatchAnswered
    /\ exchange.body.val = <<"s", "/", "a", "/", "/", "g">>
    /\ findPattern(exchange.match) = <<"a">>
    /\ replaceStr(exchange.match) = << >>
    /\ flags(exchange.match) = <<"g">>
    /\ exchange.before.file.content = <<"a">>
    /\ exchange.response.statusCode = OK

\* the places of the delimiter cmd[2] from the second character on
DelimiterPlaces(cmd) == { k \in 2..Len(cmd) : cmd[k] = cmd[2] }

Last(places) == CHOOSE k \in places : \A other \in places : other <= k

----------------------------------------------------------------------------
(* Path confinement and the trash *)

\* C11: every request whose filename resolves to a path outside the storage
\* root fails with a bad request and makes no fs call, and no file is ever
\* created outside the storage root.
C11_PathConfinement ==
    /\ outside = EmptyDir
    /\ \A i \in 1..Len(execs) : WithinStorageRoot(execs[i].filePath)
    /\ ( /\ exchange.method \in Methods
         /\ ~WithinStorageRoot(filePath(exchange.filename)) )
       => ( /\ exchange.response.statusCode = BAD_REQUEST
            /\ exchange.fsCalls = << >> )

WithinTrash(p) ==
    /\ Len(p) > Len(trashDirPath)
    /\ SubSeq(p, 1, Len(trashDirPath)) = trashDirPath

\* C12: no GET, PATCH or POST succeeds on a file that lies in the trash, and
\* no process is started on one.
C12_TrashNotExposed ==
    /\ \A i \in 1..Len(execs) : ~WithinTrash(execs[i].filePath)
    /\ ~( /\ exchange.method \in {"GET", "PATCH", "POST"}
          /\ WithinTrash(filePath(exchange.filename))
          /\ exchange.before.file.exists
          /\ exchange.response.statusCode = OK )

----------------------------------------------------------------------------
(* Errors *)

\* C13: a GET or a PATCH of an allowed filename that is absent from the
\* storage root answers 'File <filename> not found' (404), whatever the
\* message of the PATCH, and leaves the storage root and the trash as they
\* were.
C13_AbsentIsNotFound ==
    [][ ( /\ exchange'.method \in {"GET", "PATCH"}
          /\ isAllowedFile(exchange'.filename)
          /\ exchange'.filename \notin DOMAIN files )
        => /\ exchange'.response = FileNotFound(exchange'.filename)
           /\ exchange'.response.message.filename = exchange'.filename
           /\ UNCHANGED <<files, trashDir, trash>> ]_vars

InvalidPattern == Message("Invalid regular expression: ${err.message}", << >>)

\* C14: a PATCH of a file that exists, with a command that parses and whose
\* find part is not a regular expression (it opens a group and never closes
\* it), answers 400 'Invalid regular expression: <the compiler's message>'
\* and leaves the file as it was.
C14_InvalidPattern ==
    [][ ( /\ exchange'.method = "PATCH"
          /\ isAllowedFile(exchange'.filename)
          /\ exchange'.filename \in DOMAIN files
          /\ typeof(exchange'.body) = "string"
          /\ match(exchange'.body.val) # << >>
          /\ HasChar(findPattern(match(exchange'.body.val)), "(") )
        => /\ exchange'.response.statusCode = BAD_REQUEST
           /\ ~exchange'.response.success
           /\ exchange'.response.message = InvalidPattern
           /\ UNCHANGED <<files, trashDir, trash>> ]_vars

\* s/(/b/ has just been refused on a file that holds some text
C14_Witness ==
    /\ exchange.method = "PATCH"
    /\ exchange.response.message = InvalidPattern
    /\ exchange.response.statusCode = BAD_REQUEST
    /\ findPattern(exchange.match) = <<"(">>
    /\ exchange.before.file.exists
    /\ exchange.before.file.content # << >>
    /\ files[exchange.filename] = exchange.before.file.content

\* C15: a PUT to an allowed filename whose code is missing, not a string or
\* the empty string is answered 400 and creates no file.
C15_EmptyCodeRejected ==
    [][ ( /\ exchange'.method = "PUT"
          /\ isAllowedFile(exchange'.filename)
          /\ ~CodeFileSaveRequestSchema(exchange'.body) )
        => /\ exchange'.response.statusCode = BAD_REQUEST
           /\ UNCHANGED <<files, trashDir, trash>> ]_vars

\* the failure kinds, by the message the response carries
ValidationErrors ==
    { "File type not allowed",
      "Code must be a string",
      "Replacement message must be provided as a string",
      "Unsupported file extension",
      "Invalid find/replace message format. Expected format: s<delimiter>find<delimiter>replace<delimiter>flags",
      "Invalid regular expression: ${err.message}",
      "No matching text found in file ${filename} or replacement did not change the content" }

StorageIOErrors ==
    { "Error reading file: ${err.message}",
      "Error creating file: ${err.message}",
      "Error updating file: ${err.message}",
      "Error moving file to trash: ${err.message}" }

Successes ==
    { "File ${filename} read successfully",
      "Executed file ${filename} successfully",
      "File ${filename} created successfully",
      "File ${filename} updated successfully",
      "File ${filename} moved to trash successfully" }

\* the last fs call of the exchange threw
Threw(ex) == ex.fsCalls # << >> /\ ex.fsCalls[Len(ex.fsCalls)] = "throws"

C17_FaultsReported ==
    Threw(exchange) =>
        /\ exchange.response.sent
        /\ exchange.response.statusCode = INTERNAL_SERVER_ERROR
        /\ exchange.response.message.text \in StorageIOErrors

----------------------------------------------------------------------------
(* Writers and readers of one file *)

\* C18: every content a file of the storage root comes to hold was written in
\* full by a PUT or a PATCH that completed (answered 200), so that no GET
\* returns a truncated or partly written file; a GET that succeeds returns
\* what the file holds.
C18_OnlyFullWrites ==
    [][ /\ \A f \in DOMAIN files' :
              (f \notin DOMAIN files \/ files'[f] # files[f])
              => /\ exchange'.filename = f
                 /\ exchange'.response.statusCode = OK
                 /\ \/ /\ exchange'.method = "PUT"
                       /\ files'[f] = exchange'.body.val
                    \/ /\ exchange'.method = "PATCH"
                       /\ files'[f] = exchange'.response.responseObject.val
        /\ ( /\ exchange'.method = "GET"
             /\ exchange'.response.statusCode = OK )
           => exchange'.response.responseObject.val = files[exchange'.filename] ]_vars

\* C19: a PATCH of a file that exists, with a command that parses and
\* compiles, is answered 'No matching text found ... or replacement did not
\* change the content' exactly when the substituted content equals the
\* content of the file; a PATCH that succeeds leaves a content different from
\* the one before, and a PATCH that does not succeed writes nothing.
C19_RejectedIffUnchanged ==
    [][ /\ PatchesWithDirective
           => /\ (exchange'.response.message = NoEffectiveChange(exchange'.filename))
                    <=> (Substituted = files[exchange'.filename])
              /\ (exchange'.response.message = NoEffectiveChange(exchange'.filename))
                    => /\ exchange'.response.statusCode = BAD_REQUEST
                       /\ exchange'.response.responseObject.val = files[exchange'.filename]
        /\ ( /\ exchange'.method = "PATCH"
             /\ exchange'.response.statusCode = OK )
           => /\ exchange'.filename \in DOMAIN files
              /\ files'[exchange'.filename] # files[exchange'.filename]
        /\ ( /\ exchange'.method = "PATCH"
             /\ exchange'.response.statusCode # OK )
           => /\ UNCHANGED <<files, trashDir, trash>>
              /\ \A k \in 1..Len(exchange'.fsCalls) :
                    exchange'.fsCalls[k] # "writeFileSync" ]_vars

\* s/a/$&/ matched on a file that holds aa, reproduced the text and has just
\* been rejected; the file is as it was
C19_Witness ==
    /\ exchange.method = "PATCH"
    /\ exchange.body.val = <<"s", "/", "a", "/", "$", "&", "/">>
    /\ exchange.before.file.content = <<"a", "a">>
    /\ exchange.response.message = NoEffectiveChange(exchange.filename)
    /\ exchange.response.statusCode = BAD_REQUEST
    /\ files[exchange.filename] = <<"a", "a">>

\* the requests of the race that have been answered, and those answered 200
Answered == {i \in DOMAIN requests : requests[i].statusCode # 0}
Succeeded == {i \in Answered : requests[i].statusCode = OK}

\* C20: of the PUT requests that arrived together for one absent allowed
\* filename, as soon as one is answered exactly one has succeeded, every
\* other one answered got 409, and the file holds the code of the one that
\* succeeded.
C20_OneWinner ==
    Answered # {} =>
        /\ Cardinality(Succeeded) = 1
        /\ \A i \in Answered \ Succeeded : requests[i].statusCode = CONFLICT
        /\ \A i \in Succeeded :
              /\ requests[i].filename \in DOMAIN files
              /\ files[requests[i].filename] = requests[i].code.val

\* three requests with three different codes have all been answered and the
\* second one won
C20_Witness ==
    /\ DOMAIN requests = 1..3
    /\ Answered = DOMAIN requests
    /\ requests[2].statusCode = OK
    /\ requests[1].statusCode = CONFLICT
    /\ requests[3].statusCode = CONFLICT
    /\ Cardinality({requests[i].code : i \in DOMAIN requests}) = 3
    /\ files[requests[2].filename] = requests[2].code.val

----------------------------------------------------------------------------
(* Execution *)

\* what filePath of process i holds
AtFilePath(i) ==
    Stat(Directory(dirname(execs[i].filePath)), basename(execs[i].filePath))

\* A step of the POST handler starts a process only for an allowed file that
\* its existence check finds, with the interpreter of the extension on the
\* path of that file; a step of the POST handler that starts none is for a
\* refused filename (400) or an absent file (404).
LaunchesOnlyPresentFiles ==
    /\ Len(execs') > Len(execs)
       => /\ exchange'.method = "POST"
          /\ isAllowedFile(exchange'.filename)
          /\ exchange'.filename \in DOMAIN files
          /\ execs' = Append(execs, execs'[Len(execs')])
          /\ execs'[Len(execs')].filePath = filePath(exchange'.filename)
          /\ execs'[Len(execs')].command # << >>
          /\ checked'[Len(execs')].exists
          /\ checked'[Len(execs')].content = files[exchange'.filename]
          /\ UNCHANGED <<files, trashDir, trash>>
    /\ (exchange'.method = "POST" /\ execs' = execs)
       => /\ ~isAllowedFile(exchange'.filename) \/ exchange'.filename \notin DOMAIN files
          /\ exchange'.response =
                IF ~isAllowedFile(exchange'.filename) THEN FileTypeNotAllowed
                ELSE FileNotFound(exchange'.filename)
          /\ UNCHANGED <<files, trashDir, trash>>

\* C21, as stated: besides, when the process of a POST runs, its file is
\* still in the storage root with the content it had at the existence check,
\* whatever DELETE and PATCH requests were served in between.
C21_RunsWhatWasChecked ==
    [][ /\ LaunchesOnlyPresentFiles
        /\ \A i \in 1..Len(execs) :
              (execs' = Without(execs, i) /\ checked' = Without(checked, i))
              => /\ AtFilePath(i).exists
                 /\ AtFilePath(i).content = checked[i].content ]_vars

\* C21, amended: POST starts a process only for a file its existence check
\* finds and none for a refused or absent one; what the process runs is what
\* the path holds when the interpreter opens it (nothing, after a DELETE; the
\* patched text, after a PATCH), which the handler does not check again.
C21_LaunchesOnlyPresentFiles ==
    [][ /\ LaunchesOnlyPresentFiles
        /\ \A i \in 1..Len(execs) :
              (execs' = Without(execs, i) /\ checked' = Without(checked, i))
              => /\ exchange'.method = "POST"
                 /\ exchange'.filename = execs[i].filename
                 /\ exchange'.response.sent
                 /\ exchange'.before.file = AtFilePath(i)
                 /\ UNCHANGED <<files, trashDir, trash>> ]_vars

\* a DELETE has just moved to the trash the file of a process that was
\* started and has not ended
C21_Witness ==
    /\ Len(execs) >= 1
    /\ checked[1].exists
    /\ checked[1].content # << >>
    /\ exchange.method = "DELETE"
    /\ exchange.response.statusCode = OK
    /\ exchange.filename = execs[1].filename
    /\ ~AtFilePath(1).exists

\* C22: every request gets its response: the handlers of GET, PUT, PATCH and
\* DELETE, and of a POST that starts no process, send one before they return,
\* also when an fs call throws; a POST that started a process gets its
\* response when the process ends.
C22_EveryRequestAnswered ==
    /\ [](( /\ exchange.method \in Methods
            /\ ~exchange.response.sent )
          => /\ exchange.method = "POST"
             /\ \E i \in 1..Len(execs) : execs[i].filename = exchange.filename)
    /\ \A filename \in RequestNames :
          (\E i \in 1..Len(execs) : execs[i].filename = filename)
             ~> ( /\ exchange.method = "POST"
                  /\ exchange.filename = filename
                  /\ exchange.response.sent )

====
